---- MODULE Spec2Model ----
(***************************************************************************)
(* A model of spinning_cube.rs (src/src/main.rs): the Screen pixel buffer, *)
(* the perspective projection, the line rasterizer and the animation loop. *)
(*                                                                         *)
(* Numbers.  The program computes in f64 and so does the model: a finite   *)
(* f64 is a record [neg, m, e] standing for (-1)^neg * m * 2^e, and every  *)
(* arithmetic operation computes its exact result and rounds it to 53 bits *)
(* to nearest, ties to even, as IEEE 754 prescribes (section "f64").       *)
(* f64::cos and f64::sin are no such operations: their precision is left   *)
(* open, and the model has the set of the values each of them may return.  *)
(* The screen of the model is Width x Height cells; the program's is       *)
(* 160 x 80.                                                               *)
(***************************************************************************)
EXTENDS Integers, Sequences, FiniteSets, Bags

VARIABLES pixels, buffer,                     \* Screen.pixels, Screen.buffer
          lastOp, nops,                       \* the last Screen call and the number of calls made
          line, visited, phase, first,        \* draw_line's loop state, the cells it visited, the pass, the first pass's pixels
          point, camera_position, display_surface_z, result,   \* project_3d_point's arguments and return value
          angle, pc, rotated_points, projected_points,         \* main's locals and position
          drawn, lit, emitted, prevLit,                        \* draw_line calls and cells of this cycle, the terminal's text, the cells of the cycle before
          cycle                                                \* the number of finished iterations of main's loop

vars == <<pixels, buffer, lastOp, nops, line, visited, phase, first,
          point, camera_position, display_surface_z, result,
          angle, pc, rotated_points, projected_points, drawn, lit, emitted, prevLit, cycle>>

screenVars == <<lastOp, nops>>
lineVars   == <<line, visited, phase, first>>
projVars   == <<point, display_surface_z, result>>
mainVars   == <<angle, pc, rotated_points, projected_points, drawn, lit, emitted, prevLit,
                camera_position, cycle>>

----------------------------------------------------------------------------
(* Bounds of the model *)

\* Screen::new(width, height): the program uses 160 x 80; the model a small screen
Width == 6
Height == 4
\* coordinates handed to set and draw_line range over 0..MaxCoord (beyond the screen)
MaxCoord == 7
\* number of Screen calls in a run of the buffer specification
MaxOps == 3
\* points handed to project_3d_point have whole x and y of at most this size
MaxPoint == 3
\* and lie at most this far in front of the camera (and down to 1 behind it)
MaxDepth == 6
\* iterations of main's loop that are followed; the angle wraps in iteration 629
MaxCycles == 630

----------------------------------------------------------------------------
(* Helpers *)

Abs(n) == IF n < 0 THEN -n ELSE n
Max(a, b) == IF a > b THEN a ELSE b
Min(a, b) == IF a < b THEN a ELSE b

\* Rust's integer `/`: the quotient truncated toward zero
TruncDiv(a, b) == IF a >= 0 THEN a \div b ELSE -((-a) \div b)

----------------------------------------------------------------------------
(* Screen *)

\* Screen::new: vec![false; width * height]; cell (x, y) is pixels[x + y*width + 1]
NewPixels == [i \in 1..(Width * Height) |-> FALSE]

\* a set that forgets the bounds test
SetNoGuard(px, x, y, value) ==
    LET index == x + y * Width
    IN  IF index < Len(px) THEN [px EXCEPT ![index + 1] = value] ELSE px

\* a set that indexes column-major
SetTransposed(px, x, y, value) ==
    IF x < Width /\ y < Height
    THEN [px EXCEPT ![y + x * Height + 1] = value]
    ELSE px

\* Screen::set
Set(px, x, y, value) ==
    IF x < Width /\ y < Height
    THEN LET index == x + y * Width
         IN  [px EXCEPT ![index + 1] = value]
    ELSE px

\* a clear that leaves the cells as they are
ClearNothing(px) == px

\* Screen::clear: pixels.fill(false)
Clear(px) == [i \in DOMAIN px |-> FALSE]

\* slice::chunks(n): consecutive pieces of n elements, the last one shorter
RECURSIVE Chunks(_, _)
Chunks(s, n) ==
    IF Len(s) = 0 THEN <<>>
    ELSE IF Len(s) <= n THEN <<s>>
    ELSE <<SubSeq(s, 1, n)>> \o Chunks(SubSeq(s, n + 1, Len(s)), n)

\* the inner loop of build: one character per pixel of the row
RECURSIVE RowText(_)
RowText(row) ==
    IF row = <<>> THEN <<>>
    ELSE <<(IF Head(row) THEN "." ELSE " ")>> \o RowText(Tail(row))

RECURSIVE RowsText(_)
RowsText(rows) ==
    IF rows = <<>> THEN <<>>
    ELSE RowText(Head(rows)) \o <<"\n">> \o RowsText(Tail(rows))

\* a build that forgets the newline ending each row
BuildNoNewline(px) == RowText(px)

\* Screen::build: the buffer is cleared and rebuilt from the pixels
Build(px) == RowsText(Chunks(px, Width))

----------------------------------------------------------------------------
(* Screen::draw_line *)

\* a draw_line that halves its error term rounding down, not toward zero
LineStartFloorHalf(start, end) ==
    LET x0 == start[1]
        y0 == start[2]
        x1 == end[1]
        y1 == end[2]
        dx == Abs(x1 - x0)
        dy == Abs(y1 - y0)
    IN  [x0 |-> x0, y0 |-> y0, x1 |-> x1, y1 |-> y1,
         dx |-> dx, dy |-> dy,
         sx |-> IF x0 < x1 THEN 1 ELSE -1,
         sy |-> IF y0 < y1 THEN 1 ELSE -1,
         err |-> (IF dx > dy THEN dx ELSE -dy) \div 2,
         x |-> x0, y |-> y0,
         steps |-> 0, state |-> "loop"]

\* the locals of draw_line before its loop
LineStart(start, end) ==
    LET x0 == start[1]
        y0 == start[2]
        x1 == end[1]
        y1 == end[2]
        dx == Abs(x1 - x0)
        dy == Abs(y1 - y0)
    IN  [x0 |-> x0, y0 |-> y0, x1 |-> x1, y1 |-> y1,
         dx |-> dx, dy |-> dy,
         sx |-> IF x0 < x1 THEN 1 ELSE -1,
         sy |-> IF y0 < y1 THEN 1 ELSE -1,
         err |-> TruncDiv(IF dx > dy THEN dx ELSE -dy, 2),
         x |-> x0, y |-> y0,
         steps |-> 0, state |-> "loop"]

\* the bounds test and the set at the top of the loop body
LinePlot(px, l) ==
    IF l.x >= 0 /\ l.x < Width /\ l.y >= 0 /\ l.y < Height
    THEN Set(px, l.x, l.y, TRUE)
    ELSE px

\* an exit test that is content with reaching the end point's column or row
LineAtEndEither(l) == l.x = l.x1 \/ l.y = l.y1

\* the loop's exit test
LineAtEnd(l) == l.x = l.x1 /\ l.y = l.y1

\* a step that tests the error term against the wrong bound for y
LineStepSkewed(l) ==
    LET e2 == l.err
        stepX == e2 > -l.dx
        stepY == e2 <= l.dy
    IN  [l EXCEPT !.err = e2 - (IF stepX THEN l.dy ELSE 0) + (IF stepY THEN l.dx ELSE 0),
                  !.x = l.x + (IF stepX THEN l.sx ELSE 0),
                  !.y = l.y + (IF stepY THEN l.sy ELSE 0),
                  !.steps = l.steps + 1]

\* the rest of the loop body: e2 = err; step x when e2 > -dx, step y when e2 < dy
LineStep(l) ==
    LET e2 == l.err
        stepX == e2 > -l.dx
        stepY == e2 < l.dy
    IN  [l EXCEPT !.err = e2 - (IF stepX THEN l.dy ELSE 0) + (IF stepY THEN l.dx ELSE 0),
                  !.x = l.x + (IF stepX THEN l.sx ELSE 0),
                  !.y = l.y + (IF stepY THEN l.sy ELSE 0),
                  !.steps = l.steps + 1]

\* the loop of draw_line run to its break (the pixels after a pass are
\* computed before the next pass is looked at)
RECURSIVE DrawLoop(_, _)
DrawLoop(px, l) ==
    IF LineAtEnd(l) THEN LinePlot(px, l)
    ELSE CHOOSE after \in {DrawLoop(plotted, LineStep(l)) : plotted \in {LinePlot(px, l)}} : TRUE

\* Screen::draw_line as one call
DrawLine(px, start, end) == DrawLoop(px, LineStart(start, end))

----------------------------------------------------------------------------
(* f64                                                                     *)
(*                                                                         *)
(* Natural numbers of any size are sequences of 13-bit limbs, the least    *)
(* significant first and the most significant not 0 (TLC's integers have   *)
(* 32 bits; a product of two limbs and a sum of such products fit).  A     *)
(* finite f64 is [neg, m, e] with m of exactly 53 bits, or Zero.  Signed   *)
(* zeros, subnormal numbers, infinities and NaN are not represented: the   *)
(* values of the program stay far from them, and -0.0 and 0.0 compare,     *)
(* multiply and convert alike.                                             *)

Base == 2^13
Limb(a, i) == IF i <= Len(a) THEN a[i] ELSE 0

\* (TLC computes an argument where the operator first reads it.  The operators
\* below read their arguments first of all, mostly to set aside the case of
\* 0, so that a calculation is evaluated one operation after the other and
\* not one inside the other.)

\* the sequence f with every element computed (TLC computes the elements of
\* [i \in S |-> e] anew each time they are read)
Whole(f) == f \o <<>>

\* the sum of the values of f, none below 0: the size of the bag with
\* f[i] + 1 copies of each i, less one copy of each
Sum(f) == BagCardinality([i \in DOMAIN f |-> f[i] + 1]) - Cardinality(DOMAIN f)

\* drop the most significant limbs that are 0
Top(a) ==
    IF \A i \in 1..Len(a) : a[i] = 0 THEN 0
    ELSE CHOOSE i \in 1..Len(a) : a[i] # 0 /\ \A j \in (i + 1)..Len(a) : a[j] = 0
Trimmed(a) == SubSeq(a, 1, Top(a))
Trim(a) == Trimmed(Whole(a))

\* the limbs of the number with the given column values (each from 0 to
\* 2^31 - 1), three more limbs than columns.  One round of carrying leaves in
\* each column what it has below Base and adds what the column before it has
\* above; after three rounds no column is above Base.  Then a column of Base
\* carries 1 into the next, and a carry passes through columns of Base - 1.
CarryRound(cols) ==
    Whole([i \in 1..(Len(cols) + 1) |->
              (Limb(cols, i) % Base) + (IF i = 1 THEN 0 ELSE cols[i - 1] \div Base)])
CarryInto(v, i) ==
    \E j \in 1..(i - 1) : v[j] = Base /\ \A k \in (j + 1)..(i - 1) : v[k] = Base - 1
Ripple(v) ==
    IF \A i \in 1..Len(v) : v[i] < Base THEN v
    ELSE Whole([i \in 1..Len(v) |-> (v[i] + (IF CarryInto(v, i) THEN 1 ELSE 0)) % Base])
Carried(cols) == Ripple(CarryRound(CarryRound(CarryRound(cols))))
Carry(cols) == IF cols = <<>> THEN <<>> ELSE Trimmed(Carried(cols))

BFromInt(n) == Carry(<<n>>)
BAdd(a, b) ==
    IF a = <<>> THEN b
    ELSE IF b = <<>> THEN a
    ELSE Carry([i \in 1..Max(Len(a), Len(b)) |-> Limb(a, i) + Limb(b, i)])
\* a - b for a >= b: a plus the complement of b, less the Base^Len(a) this adds
BSub(a, b) ==
    IF a = <<>> \/ b = <<>> THEN a
    ELSE Trim(SubSeq(Carried(Whole([i \in 1..Len(a) |->
                                a[i] + (Base - 1 - Limb(b, i)) + (IF i = 1 THEN 1 ELSE 0)])),
                     1, Len(a)))

\* column k of the product of a and b
Dot(a, b, k, lo, hi) == Sum([i \in lo..hi |-> a[i] * b[k + 1 - i]])
BMul(a, b) ==
    IF a = <<>> \/ b = <<>> THEN <<>>
    ELSE Carry([k \in 1..(Len(a) + Len(b) - 1) |->
                   Dot(a, b, k, Max(1, k + 1 - Len(b)), Min(Len(a), k))])

\* -1, 0 or 1 as a is below, equal to or above b
BCmp(a, b) ==
    IF Len(a) # Len(b) THEN (IF Len(a) < Len(b) THEN -1 ELSE 1)
    ELSE LET D == {i \in 1..Len(a) : a[i] # b[i]}
         IN  IF D = {} THEN 0
             ELSE LET k == CHOOSE i \in D : \A j \in D : j <= i
                  IN  IF a[k] < b[k] THEN -1 ELSE 1

\* a * 2^n and the whole part of a / 2^n
BShl(a, n) ==
    IF a = <<>> THEN <<>>
    ELSE [i \in 1..(n \div 13) |-> 0] \o Carry([i \in 1..Len(a) |-> a[i] * 2^(n % 13)])
BShr(a, n) ==
    IF n \div 13 >= Len(a) THEN <<>>
    ELSE LET r == n % 13
             rest == SubSeq(a, (n \div 13) + 1, Len(a))
         IN  Trim([i \in 1..Len(rest) |->
                      (rest[i] \div 2^r) + (Limb(rest, i + 1) % 2^r) * 2^(13 - r)])

\* is one of the n lowest bits of a set; bit n of a; the number of bits of a
BLowNonZero(a, n) ==
    \/ \E i \in 1..Min(n \div 13, Len(a)) : a[i] # 0
    \/ Limb(a, (n \div 13) + 1) % 2^(n % 13) # 0
BBit(a, n) == (Limb(a, (n \div 13) + 1) \div 2^(n % 13)) % 2
BitLen(a) ==
    IF a = <<>> THEN 0
    ELSE 13 * (Len(a) - 1) + (CHOOSE k \in 1..13 : 2^(k - 1) <= a[Len(a)] /\ a[Len(a)] < 2^k)

\* usize values are only ever compared with the width and the height of the
\* screen: a value of 2^30 or more is reported as 2^30
UsizeCap == 2^30
BToInt(a) ==
    IF BitLen(a) > 30 THEN UsizeCap
    ELSE Limb(a, 1) + Limb(a, 2) * Base + Limb(a, 3) * Base * Base

\* the whole part of a / d for 0 < d <= 128 and a of at most 16 limbs, by long
\* division: the limb of the quotient at i is what is left of the limbs above
\* i, with limb i after it, divided by d.  PowMod(k, d) is Base^k mod d.
Power(p, n) == IF n = 0 THEN 1 ELSE p^n
PowMod(k, d) ==
    ((Power(Base % d, k % 4) % d) * (Power(Power(Base % d, 4) % d, k \div 4) % d)) % d
LeftAbove(a, d, i) == Sum([j \in (i + 1)..Len(a) |-> (a[j] % d) * PowMod(j - i - 1, d)]) % d
BDivSmall(a, d) ==
    IF a = <<>> THEN <<>>
    ELSE Trim([i \in 1..Len(a) |-> (LeftAbove(a, d, i) * Base + a[i]) \div d])

\* 0.0, 1.0, 2.0 and 0.5
Zero == [neg |-> FALSE, m |-> <<>>, e |-> 0]
One == [neg |-> FALSE, m |-> <<0, 0, 0, 0, 1>>, e |-> -52]
Two == [neg |-> FALSE, m |-> <<0, 0, 0, 0, 1>>, e |-> -51]
Half == [neg |-> FALSE, m |-> <<0, 0, 0, 0, 1>>, e |-> -53]

\* the f64 nearest to (-1)^neg * m * 2^e, ties to even: m is cut to its 53
\* leading bits q, and q + 1 is taken when the bits cut off are more than half
\* a unit of q, or just half and q is odd
Renormalise(neg, m, e) ==
    IF BitLen(m) = 54 THEN [neg |-> neg, m |-> BShr(m, 1), e |-> e + 1]
    ELSE [neg |-> neg, m |-> m, e |-> e]
RoundCut(neg, m, e, s, q) ==
    IF BBit(m, s - 1) = 1 /\ (BLowNonZero(m, s - 1) \/ BBit(q, 0) = 1)
    THEN Renormalise(neg, BAdd(q, <<1>>), e + s)
    ELSE [neg |-> neg, m |-> q, e |-> e + s]
RoundLen(neg, m, e, bits) ==
    IF bits <= 53 THEN [neg |-> neg, m |-> BShl(m, 53 - bits), e |-> e - (53 - bits)]
    ELSE RoundCut(neg, m, e, bits - 53, BShr(m, bits - 53))
F64Round(neg, m, e) == IF m = <<>> THEN Zero ELSE RoundLen(neg, m, e, BitLen(m))

\* `n as f64` for an integer n
F64FromInt(n) == F64Round(n < 0, BFromInt(Abs(n)), 0)

F64Neg(a) == IF a.m = <<>> THEN a ELSE [a EXCEPT !.neg = ~a.neg]

\* a + b, not rounded: the significands ma and mb are those of a and b at the
\* smaller exponent e
AddSigned(aneg, bneg, ma, mb, e, c) ==
    IF aneg = bneg THEN [neg |-> aneg, m |-> BAdd(ma, mb), e |-> e]
    ELSE IF c = 0 THEN Zero
    ELSE IF c > 0 THEN [neg |-> aneg, m |-> BSub(ma, mb), e |-> e]
    ELSE [neg |-> bneg, m |-> BSub(mb, ma), e |-> e]
AddAligned(aneg, bneg, ma, mb, e) == AddSigned(aneg, bneg, ma, mb, e, BCmp(ma, mb))
AddAt(a, b, e) == AddAligned(a.neg, b.neg, BShl(a.m, a.e - e), BShl(b.m, b.e - e), e)
ExactAdd(a, b) ==
    IF a.m = <<>> THEN b
    ELSE IF b.m = <<>> THEN a
    ELSE AddAt(a, b, Min(a.e, b.e))

Rounded(s) == F64Round(s.neg, s.m, s.e)
F64Add(a, b) ==
    IF a.m = <<>> THEN b
    ELSE IF b.m = <<>> THEN a
    ELSE Rounded(AddAt(a, b, Min(a.e, b.e)))
F64Sub(a, b) == F64Add(a, F64Neg(b))
\* -1, 0 or 1 as a < b, a = b or a > b
Sign(s) == IF s.m = <<>> THEN 0 ELSE IF s.neg THEN -1 ELSE 1
F64Cmp(a, b) == Sign(ExactAdd(a, F64Neg(b)))
F64Mul(a, b) ==
    IF a.m = <<>> \/ b.m = <<>> THEN Zero
    ELSE F64Round(a.neg # b.neg, BMul(a.m, b.m), a.e + b.e)

\* a / b for b # 0 by long division, one 13-bit digit of the quotient at a
\* time: a digit is estimated from the leading bits of the remainder and of
\* the divisor (never too high, at most 2 too low) and then corrected.  The
\* quotient is taken to 65 bits after its leading one, with a sticky bit for
\* what is left.
RECURSIVE DivFix(_, _, _)
DivFix(rem, d, t) ==
    IF BCmp(rem, d) >= 0 THEN DivFix(BSub(rem, d), d, t + 1) ELSE [t |-> t, r |-> rem]
DivEstimate(shifted, d) == BToInt(BShr(shifted, 36)) \div (BToInt(BShr(d, 36)) + 1)
DivCorrect(shifted, d, est) ==
    IF est = 0 THEN DivFix(shifted, d, 0)
    ELSE DivFix(BSub(shifted, BMul(d, BFromInt(est))), d, est)
DivShifted(shifted, d) == DivCorrect(shifted, d, DivEstimate(shifted, d))
DivDigit(r, d) == IF r = <<>> THEN [t |-> 0, r |-> <<>>] ELSE DivShifted(<<0>> \o r, d)
\* st = [d: the divisor, q: the digits found, r: the remainder, k: the digits to find]
RECURSIVE DivDigits(_)
DivNext(st, s) == [d |-> st.d, q |-> <<s.t>> \o st.q, r |-> s.r, k |-> st.k - 1]
DivDigits(st) == IF st.k = 0 THEN st ELSE DivDigits(DivNext(st, DivDigit(st.r, st.d)))
WithSticky(q, sticky) ==
    Carry([i \in 1..Len(q) |-> 2 * q[i] + (IF i = 1 THEN sticky ELSE 0)])
DivQuotient(st) ==
    IF st.r = <<>> THEN WithSticky(Trim(st.q), 0) ELSE WithSticky(Trim(st.q), 1)
DivFirst(d, s) == [d |-> d, q |-> <<s.t>>, r |-> s.r, k |-> 5]
DivStart(a, b) == DivFirst(b.m, DivFix(a.m, b.m, 0))
F64Div(a, b) ==
    IF a.m = <<>> THEN Zero
    ELSE F64Round(a.neg # b.neg, DivQuotient(DivDigits(DivStart(a, b))), a.e - b.e - 66)

\* Rust's `f as usize`: truncated toward zero, every negative value saturated at 0
F64AsUsize(a) ==
    IF a.m = <<>> \/ a.neg THEN 0
    ELSE IF a.e >= 0 THEN UsizeCap
    ELSE BToInt(BShr(a.m, -a.e))

\* f64::cos and f64::sin.  Their precision is unspecified: the library
\* returns a value less than one unit in the last place from the exact one,
\* which is one of the two f64 values around the exact value, and the build
\* decides which.  Cos(a) and Sin(a) are the sets of these two values, for
\* |a| < 8.  cos(0) = 1 and sin(0) = 0 are exact.  For 0 < |a| < 2^-26 the
\* exact values are just below 1 and just below a in size.  For other a they
\* are taken from the power series, summed in fixed point with `frac` bits
\* after the point: FracBits of them, and FineBits when the sum comes out
\* below 2^-8 (where FracBits bits leave too few after the 53 of an f64).
FracBits == 7 * 13
FineBits == 11 * 13
\* |a| in fixed point
Fixed(a, frac) ==
    IF a.e + frac >= 0 THEN BShl(a.m, a.e + frac) ELSE BShr(a.m, -(a.e + frac))
\* up to `budget` of the terms X^n / n!, from st.term (the n-th) on, each added
\* to the sum of its class n mod 4
RECURSIVE SeriesTerms(_, _, _, _)
SeriesTerms(X, st, budget, frac) ==
    IF st.term = <<>> \/ budget = 0 THEN st
    ELSE SeriesTerms(X,
                     [term |-> BDivSmall(BShr(BMul(st.term, X), frac), st.n + 1),
                      n |-> st.n + 1,
                      acc |-> [st.acc EXCEPT ![(st.n % 4) + 1] = BAdd(@, st.term)]],
                     budget - 1, frac)
SeriesStart(frac) == [term |-> BShl(<<1>>, frac), n |-> 0, acc |-> <<<<>>, <<>>, <<>>, <<>>>>]
SeriesChunks(X, st, frac) ==
    SeriesTerms(X, SeriesTerms(X, SeriesTerms(X, st, 16, frac), 16, frac), 16, frac)
Series(X, frac) == SeriesChunks(X, SeriesChunks(X, SeriesStart(frac), frac), frac)
\* the four sums of the series of |a|
Sums(a, frac) == Series(Fixed(a, frac), frac).acc
\* plus - minus, negated when `flip`: its sign and its size
Signed(plus, minus, flip) ==
    IF BCmp(plus, minus) >= 0 THEN [neg |-> flip, m |-> BSub(plus, minus)]
    ELSE [neg |-> ~flip, m |-> BSub(minus, plus)]
CosSum(acc) == Signed(acc[1], acc[3], FALSE)
SinSum(acc, neg) == Signed(acc[2], acc[4], neg)
\* the f64 next to a # 0 on the side of 0
Below(a) ==
    IF a.m = <<0, 0, 0, 0, 1>>
    THEN [neg |-> a.neg, m |-> <<8191, 8191, 8191, 8191, 1>>, e |-> a.e - 1]
    ELSE [a EXCEPT !.m = BSub(@, <<1>>)]
\* the two f64 values around (-1)^neg * m * 2^e, m of `bits` > 53 bits and
\* no f64 itself: m cut to its 53 leading bits q, and q + 1
AroundCut(neg, q, e) ==
    {[neg |-> neg, m |-> q, e |-> e], Renormalise(neg, BAdd(q, <<1>>), e)}
Around(neg, m, e, bits) == AroundCut(neg, BShr(m, bits - 53), e + (bits - 53))
AroundSum(s, frac) == Around(s.neg, s.m, -frac, BitLen(s.m))
\* the sum s is 2^-8 or more
Resolved(s, frac) == BitLen(s.m) > frac - 8
CosNear(a, s) ==
    IF Resolved(s, FracBits) THEN AroundSum(s, FracBits)
    ELSE AroundSum(CosSum(Sums(a, FineBits)), FineBits)
SinNear(a, s) ==
    IF Resolved(s, FracBits) THEN AroundSum(s, FracBits)
    ELSE AroundSum(SinSum(Sums(a, FineBits), a.neg), FineBits)
\* |a| < 2^-26
Tiny(a) == BitLen(a.m) + a.e <= -26
\* the values f64::cos(a) and f64::sin(a) may have, acc being Sums(a, FracBits)
CosOf(a, acc) ==
    IF a.m = <<>> THEN {One}
    ELSE IF Tiny(a) THEN {One, Below(One)}
    ELSE CosNear(a, CosSum(acc))
SinOf(a, acc) ==
    IF a.m = <<>> THEN {Zero}
    ELSE IF Tiny(a) THEN {a, Below(a)}
    ELSE SinNear(a, SinSum(acc, a.neg))
Cos(a) == CosOf(a, Sums(a, FracBits))
Sin(a) == SinOf(a, Sums(a, FracBits))
\* the pairs of a value of f64::cos(a) and a value of f64::sin(a)
SinCosOf(a, acc) == {[cos |-> c, sin |-> s] : c \in CosOf(a, acc), s \in SinOf(a, acc)}
SinCos(a) == SinCosOf(a, Sums(a, FracBits))

----------------------------------------------------------------------------
(* Vectors *)

Vec(x, y, z) == [x |-> F64FromInt(x), y |-> F64FromInt(y), z |-> F64FromInt(z)]
VecSub(a, b) == [x |-> F64Sub(a.x, b.x), y |-> F64Sub(a.y, b.y), z |-> F64Sub(a.z, b.z)]

----------------------------------------------------------------------------
(* Screen::project_3d_point *)

None == <<>>
Some(x, y) == <<x, y>>

\* the bounds test at the end of project_3d_point
OnScreen(screen_x, screen_y) ==
    IF screen_x < Width /\ screen_y < Height THEN Some(screen_x, screen_y) ELSE None

\* Screen::project_3d_point
ProjectPoint(pt, camera, surface_z) ==
    LET transformed_point == VecSub(pt, camera)
    IN  IF F64Cmp(transformed_point.z, Zero) > 0
        THEN LET projected_x ==
                     F64Mul(F64Div(surface_z, transformed_point.z), transformed_point.x)
                 projected_y ==
                     F64Mul(F64Div(surface_z, transformed_point.z), transformed_point.y)
                 screen_x ==
                     F64AsUsize(F64Mul(F64Mul(F64Add(projected_x, One), Half),
                                       F64FromInt(Width)))
                 screen_y ==
                     F64AsUsize(F64Mul(F64Sub(One, F64Mul(F64Add(projected_y, One), Half)),
                                       F64FromInt(Height)))
             IN  OnScreen(screen_x, screen_y)
        ELSE None

----------------------------------------------------------------------------
(* rotate_point *)

\* Matrix3 * Matrix3 and Matrix3 * Vector3 (a matrix is its three rows): each
\* entry is the sum of its three products, added in the order of the columns
Dot3(a1, b1, a2, b2, a3, b3) == F64Add(F64Add(F64Mul(a1, b1), F64Mul(a2, b2)), F64Mul(a3, b3))
MatRow(r, b) == << Dot3(r[1], b[1][1], r[2], b[2][1], r[3], b[3][1]),
                   Dot3(r[1], b[1][2], r[2], b[2][2], r[3], b[3][2]),
                   Dot3(r[1], b[1][3], r[2], b[2][3], r[3], b[3][3]) >>
MatMul(a, b) == <<MatRow(a[1], b), MatRow(a[2], b), MatRow(a[3], b)>>
RowVec(r, v) == Dot3(r[1], v.x, r[2], v.y, r[3], v.z)
MatVec(m, v) == [x |-> RowVec(m[1], v), y |-> RowVec(m[2], v), z |-> RowVec(m[3], v)]

\* rotation_x, rotation_y and rotation_z of rotate_point, from the cosine and
\* sine of the angle
RotationX(t) == << <<One, Zero, Zero>>,
                   <<Zero, t.cos, F64Neg(t.sin)>>,
                   <<Zero, t.sin, t.cos>> >>
RotationY(t) == << <<t.cos, Zero, t.sin>>,
                   <<Zero, One, Zero>>,
                   <<F64Neg(t.sin), Zero, t.cos>> >>
RotationZ(t) == << <<t.cos, F64Neg(t.sin), Zero>>,
                   <<t.sin, t.cos, Zero>>,
                   <<Zero, Zero, One>> >>
\* rotation_matrix of rotate_point: rotation_x * rotation_y * rotation_z
RotationProduct(tx, ty, tz) == MatMul(MatMul(RotationX(tx), RotationY(ty)), RotationZ(tz))
\* the matrices rotation_matrix may be, sx, sy and sz being the cosines and
\* sines the three angles may have: an angle that occurs twice has the same
\* cosine and sine both times
RotationsFrom(sx, sy, sz, rotation) ==
    {RotationProduct(t[1], t[2], t[3]) :
        t \in {u \in sx \X sy \X sz :
                  /\ rotation.y = rotation.x => u[2] = u[1]
                  /\ rotation.z = rotation.x => u[3] = u[1]
                  /\ rotation.z = rotation.y => u[3] = u[2]}}
RotationsWith(sx, rotation) ==
    RotationsFrom(sx, SinCos(rotation.y),
                  IF rotation.z = rotation.x THEN sx ELSE SinCos(rotation.z), rotation)
RotationMatrix(rotation) == RotationsWith(SinCos(rotation.x), rotation)

\* rotate_point: the values it may return
RotatePoint(pt, rotation) == {MatVec(m, pt) : m \in RotationMatrix(rotation)}

----------------------------------------------------------------------------
(* Values the variables hold while the part of the program they belong to  *)
(* is not running                                                          *)

ZeroVec == [x |-> Zero, y |-> Zero, z |-> Zero]
NoCall == [op |-> "new", x |-> 0, y |-> 0, value |-> FALSE]
IdleLine == [LineStart(<<0, 0>>, <<0, 0>>) EXCEPT !.state = "idle"]
NoResult == [called |-> FALSE, value |-> <<>>]

ScreenIdle == lastOp = NoCall /\ nops = 0
LineIdle == line = IdleLine /\ visited = <<>> /\ phase = 0 /\ first = NewPixels
ProjIdle == point = ZeroVec /\ display_surface_z = Zero /\ result = NoResult
MainIdle ==
    /\ angle = Zero /\ pc = "idle" /\ rotated_points = <<>> /\ projected_points = <<>>
    /\ drawn = <<>> /\ lit = {} /\ emitted = <<>> /\ prevLit = {}
    /\ camera_position = ZeroVec /\ cycle = 0

----------------------------------------------------------------------------
(* The pixel buffer: set, clear and build called in any order *)

InitScreen ==
    /\ pixels = NewPixels
    /\ buffer = <<>>
    /\ ScreenIdle /\ LineIdle /\ ProjIdle /\ MainIdle

SetCall ==
    /\ nops < MaxOps
    /\ \E x \in 0..Width, y \in 0..Height, value \in BOOLEAN :
          /\ pixels' = Set(pixels, x, y, value)
          /\ lastOp' = [op |-> "set", x |-> x, y |-> y, value |-> value]
    /\ nops' = nops + 1
    /\ UNCHANGED <<buffer, lineVars, projVars, mainVars>>

ClearCall ==
    /\ nops < MaxOps
    /\ pixels' = Clear(pixels)
    /\ lastOp' = [NoCall EXCEPT !.op = "clear"]
    /\ nops' = nops + 1
    /\ UNCHANGED <<buffer, lineVars, projVars, mainVars>>

BuildCall ==
    /\ nops < MaxOps
    /\ buffer' = Build(pixels)
    /\ lastOp' = [NoCall EXCEPT !.op = "build"]
    /\ nops' = nops + 1
    /\ UNCHANGED <<pixels, lineVars, projVars, mainVars>>

NextScreen == SetCall \/ ClearCall \/ BuildCall

SpecScreen == InitScreen /\ [][NextScreen]_vars

----------------------------------------------------------------------------
(* draw_line on a cleared buffer, one loop iteration per step; when the    *)
(* line is done the buffer is cleared and the same line is drawn from its  *)
(* other end                                                               *)

Coords == (0..MaxCoord) \X (0..MaxCoord)
MaxSteps == 2 * MaxCoord + 2

InitLine ==
    /\ pixels = NewPixels
    /\ buffer = <<>>
    /\ \E start \in Coords, end \in Coords : line = LineStart(start, end)
    /\ visited = <<>>
    /\ phase = 1
    /\ first = NewPixels
    /\ ScreenIdle /\ ProjIdle /\ MainIdle

\* one iteration of the loop: plot, then break at the end point or step
LineIter ==
    /\ line.state = "loop"
    /\ line.steps <= MaxSteps
    /\ pixels' = LinePlot(pixels, line)
    /\ visited' = Append(visited, <<line.x, line.y>>)
    /\ line' = IF LineAtEnd(line) THEN [line EXCEPT !.state = "done"] ELSE LineStep(line)
    /\ UNCHANGED <<buffer, phase, first, screenVars, projVars, mainVars>>

\* clear, then draw_line(end, start)
Reverse ==
    /\ line.state = "done"
    /\ phase = 1
    /\ first' = pixels
    /\ pixels' = Clear(pixels)
    /\ line' = LineStart(<<line.x1, line.y1>>, <<line.x0, line.y0>>)
    /\ visited' = <<>>
    /\ phase' = 2
    /\ UNCHANGED <<buffer, screenVars, projVars, mainVars>>

NextLine == LineIter \/ Reverse

SpecLine == InitLine /\ [][NextLine]_vars

----------------------------------------------------------------------------
(* What the properties below read off a state *)

InBounds(c) == c[1] >= 0 /\ c[1] < Width /\ c[2] >= 0 /\ c[2] < Height
ScreenCells == (0..(Width - 1)) \X (0..(Height - 1))
\* the cells of px that are lit; cell (x, y) is element x + y*Width of the vector
LitCells(px) == {c \in ScreenCells : px[c[1] + c[2] * Width + 1]}
\* the character of text at row y, column x, each row being Width characters and a newline
CharAt(text, x, y) == text[y * (Width + 1) + x + 1]

RECURSIVE GCD(_, _)
GCD(a, b) == IF b = 0 THEN a ELSE GCD(b, a % b)

LineFrom == <<line.x0, line.y0>>
LineTo == <<line.x1, line.y1>>
LineLong == Max(line.dx, line.dy)
LineDone == line.state = "done"
UnitStep(a, b) ==
    /\ Abs(b[1] - a[1]) <= 1
    /\ Abs(b[2] - a[2]) <= 1
    /\ a # b

----------------------------------------------------------------------------
(* Properties of draw_line (SpecLine) *)

\* C2 as claimed: for in-bounds endpoints a and b, draw_line(b, a) on a cleared
\* buffer lights exactly the cells that draw_line(a, b) on a cleared buffer lit
C2_SymmetricAsClaimed ==
    (phase = 2 /\ LineDone /\ InBounds(LineFrom) /\ InBounds(LineTo)) => pixels = first

\* C2 amended: for in-bounds endpoints the two orders light the same cells
\* exactly when max(dx,dy) / gcd(dx,dy) is odd (a single point, a horizontal,
\* a vertical and a 45-degree line are such lines); in every case both orders
\* light both endpoints and the same number of cells, max(dx,dy) + 1
C2_SymmetricWhenNoTie ==
    (phase = 2 /\ LineDone /\ InBounds(LineFrom) /\ InBounds(LineTo)) =>
        /\ (pixels = first) <=>
              (LineLong = 0 \/ (LineLong \div GCD(line.dx, line.dy)) % 2 = 1)
        /\ {LineFrom, LineTo} \subseteq LitCells(pixels) \cap LitCells(first)
        /\ Cardinality(LitCells(pixels)) = LineLong + 1
        /\ Cardinality(LitCells(first)) = LineLong + 1

\* the line (2,1) -> (0,0) drawn after (0,0) -> (2,1): the two orders differ
C2_Witness ==
    /\ phase = 2 /\ LineDone
    /\ LineFrom = <<2, 1>> /\ LineTo = <<0, 0>>
    /\ pixels # first

\* C4: the first cell visited is start, the last one end, every visited
\* in-bounds cell is lit, and consecutive visited cells differ by at most 1 in
\* x and in y and by at least 1 in one of them
C4_TracedWithoutGaps ==
    /\ visited # <<>> => visited[1] = LineFrom
    /\ LineDone => visited # <<>> /\ visited[Len(visited)] = LineTo
    /\ \A i \in 1..Len(visited) :
          InBounds(visited[i]) => visited[i] \in LitCells(pixels)
    /\ \A i \in 1..(Len(visited) - 1) : UnitStep(visited[i], visited[i + 1])
    /\ (line.state = "loop" /\ visited # <<>>) =>
          UnitStep(visited[Len(visited)], <<line.x, line.y>>)

\* a finished line of slope 2/3 that leaves the screen on its way
C4_Witness ==
    /\ LineDone
    /\ line.dx = 3 /\ line.dy = 2
    /\ Len(visited) = 4
    /\ InBounds(LineFrom) /\ ~InBounds(LineTo)
    /\ \E i \in 1..Len(visited) : ~InBounds(visited[i])

\* C5: on a cleared buffer a finished line between in-bounds endpoints has lit
\* exactly max(dx,dy) + 1 cells: the one cell when start = end, the cells of
\* the row between x0 and x1 when y0 = y1, the diagonal cells when dx = dy
C5_ExactCells ==
    (LineDone /\ InBounds(LineFrom) /\ InBounds(LineTo)) =>
        /\ Cardinality(LitCells(pixels)) = LineLong + 1
        /\ LitCells(pixels) = {visited[i] : i \in 1..Len(visited)}
        /\ LineFrom = LineTo => LitCells(pixels) = {LineFrom}
        /\ line.dy = 0 =>
              LitCells(pixels) =
                 {<<x, line.y0>> : x \in Min(line.x0, line.x1)..Max(line.x0, line.x1)}
        /\ line.dx = line.dy =>
              LitCells(pixels) =
                 {<<line.x0 + k * line.sx, line.y0 + k * line.sy>> : k \in 0..line.dx}

\* the finished row 0 of the screen, and a finished 45-degree line
C5_Witness ==
    /\ LineDone /\ phase = 1
    /\ \/ LineFrom = <<0, 0>> /\ LineTo = <<Width - 1, 0>>
       \/ LineFrom = <<0, 0>> /\ LineTo = <<Height - 1, Height - 1>>
    /\ Cardinality(LitCells(pixels)) = LineLong + 1

\* C10: for all endpoints, in bounds or not, the loop is at the end point
\* exactly when it has stepped max(dx,dy) times, it never steps more often,
\* and x and y never leave the range between the endpoints
C10_Terminates ==
    /\ line.steps <= LineLong
    /\ LineAtEnd(line) <=> line.steps = LineLong
    /\ LineDone => line.steps = LineLong
    /\ line.x \in Min(line.x0, line.x1)..Max(line.x0, line.x1)
    /\ line.y \in Min(line.y0, line.y1)..Max(line.y0, line.y1)

\* a finished line between two points off the screen, as long as the bounds allow
C10_Witness ==
    /\ LineDone
    /\ ~InBounds(LineFrom) /\ ~InBounds(LineTo)
    /\ line.steps = MaxCoord
    /\ line.dx # line.dy /\ line.dx > 0 /\ line.dy > 0

----------------------------------------------------------------------------
(* Properties of the pixel buffer (SpecScreen) *)

\* C6: a set with x >= width or y >= height, whatever the value, leaves
\* every cell as it was, and so the text built from the cells
C6_OutOfBoundsSetIgnored ==
    [][(/\ nops' = nops + 1
        /\ lastOp'.op = "set"
        /\ (lastOp'.x >= Width \/ lastOp'.y >= Height))
       => (pixels' = pixels /\ Build(pixels') = Build(pixels))]_vars

\* set(Width, 0, true) called on a buffer that has a lit cell
C6_Witness ==
    /\ lastOp = [op |-> "set", x |-> Width, y |-> 0, value |-> TRUE]
    /\ LitCells(pixels) # {}

\* C7: after build the text is Height rows of Width characters and a newline;
\* the character at row y, column x is '.' exactly when cell x + y*width is
\* lit; after set(x, y, true) on a cleared buffer the only '.' is at row y,
\* column x
C7_RowMajorText ==
    lastOp.op = "build" =>
        /\ Len(buffer) = Height * (Width + 1)
        /\ \A y \in 0..(Height - 1) :
              /\ CharAt(buffer, Width, y) = "\n"
              /\ \A x \in 0..(Width - 1) :
                    CharAt(buffer, x, y) = IF pixels[x + y * Width + 1] THEN "." ELSE " "
        /\ \A c \in ScreenCells :
              pixels = Set(NewPixels, c[1], c[2], TRUE) =>
                 \A d \in ScreenCells :
                    CharAt(buffer, d[1], d[2]) = IF d = c THEN "." ELSE " "

\* build after set(2, 1, true) on the cleared buffer
C7_Witness ==
    /\ lastOp.op = "build"
    /\ pixels = Set(NewPixels, 2, 1, TRUE)
    /\ CharAt(buffer, 2, 1) = "."

----------------------------------------------------------------------------
(* project_3d_point called once on a point, a camera and a surface distance *)

\* main's camera_position and display_surface_z
ReferenceCamera == Vec(0, 2, -5)
DisplaySurfaceZ == One
\* the same camera moved one unit toward the cube
CloserCamera == Vec(0, 2, -4)
CameraChoices == {ReferenceCamera, CloserCamera}

\* the points tried: whole x and y, at a whole depth before or behind the camera
ProjPoints(camera) ==
    {[x |-> F64FromInt(x), y |-> F64FromInt(y), z |-> F64Add(camera.z, F64FromInt(d))] :
        x \in (-MaxPoint)..MaxPoint, y \in (-MaxPoint)..MaxPoint, d \in (-1)..MaxDepth}

InitProject ==
    /\ pixels = NewPixels
    /\ buffer = <<>>
    /\ camera_position \in CameraChoices
    /\ point \in ProjPoints(camera_position)
    /\ display_surface_z \in {DisplaySurfaceZ, Two}
    /\ result = NoResult
    /\ angle = Zero /\ pc = "idle" /\ rotated_points = <<>> /\ projected_points = <<>>
    /\ drawn = <<>> /\ lit = {} /\ emitted = <<>> /\ prevLit = {} /\ cycle = 0
    /\ ScreenIdle /\ LineIdle

ProjectCall ==
    /\ pc = "idle"
    /\ ~result.called
    /\ result' = [called |-> TRUE,
                  value |-> ProjectPoint(point, camera_position, display_surface_z)]
    /\ UNCHANGED <<pixels, buffer, point, display_surface_z, camera_position,
                   angle, pc, rotated_points, projected_points, drawn, lit, emitted,
                   prevLit, cycle, screenVars, lineVars>>

NextProject == ProjectCall

SpecProject == InitProject /\ [][NextProject]_vars

\* floor of an f64 as an integer (from -2^30 to 2^30)
F64Floor(a) ==
    IF a.m = <<>> THEN 0
    ELSE IF ~a.neg THEN F64AsUsize(a)
    ELSE IF a.e >= 0 THEN -UsizeCap
    ELSE -(BToInt(BShr(a.m, -a.e)) + (IF BLowNonZero(a.m, -a.e) THEN 1 ELSE 0))

\* the projection of section 4.3 of the specification: floor, then the bounds test
SpecifiedProjection(pt, camera, surface_z) ==
    LET t == VecSub(pt, camera)
        scale == F64Div(surface_z, t.z)
        proj_x == F64Mul(scale, t.x)
        proj_y == F64Mul(scale, t.y)
        screen_x == F64Floor(F64Mul(F64Mul(F64Add(proj_x, One), Half), F64FromInt(Width)))
        screen_y == F64Floor(F64Mul(F64Sub(One, F64Mul(F64Add(proj_y, One), Half)),
                                    F64FromInt(Height)))
    IN  IF F64Cmp(t.z, Zero) <= 0 THEN None
        ELSE IF screen_x < 0 \/ screen_x >= Width \/ screen_y < 0 \/ screen_y >= Height
             THEN None
             ELSE Some(screen_x, screen_y)

\* C3 as claimed: project_3d_point returns no projection when the translated z
\* is <= 0 or a floor-mapped coordinate is outside the screen, negative ones
\* included, and otherwise the floor-mapped pair
C3_ProjectionAsSpecified ==
    result.called =>
        result.value = SpecifiedProjection(point, camera_position, display_surface_z)

----------------------------------------------------------------------------
(* main *)

\* cube_vertices and cube_edges (the edges index the vertices from 0)
cube_vertices ==
    << Vec(-1, -1, -1), Vec(1, -1, -1), Vec(1, 1, -1), Vec(-1, 1, -1),
       Vec(-1, -1, 1),  Vec(1, -1, 1),  Vec(1, 1, 1),  Vec(-1, 1, 1) >>
cube_edges ==
    << <<0, 1>>, <<1, 2>>, <<2, 3>>, <<3, 0>>,
       <<4, 5>>, <<5, 6>>, <<6, 7>>, <<7, 4>>,
       <<0, 4>>, <<1, 5>>, <<2, 6>>, <<3, 7>> >>

\* the literal 0.01: the f64 nearest to 1/100, 0x147AE147AE147B * 2^-59
Increment == [neg |-> FALSE, m |-> <<5243, 7536, 6225, 2293, 1>>, e |-> -59]
\* std::f64::consts::PI: 0x1921FB54442D18 * 2^-51, and 2.0 * PI
PI == [neg |-> FALSE, m |-> <<3352, 545, 7893, 4675, 1>>, e |-> -51]
TwoPi == [neg |-> FALSE, m |-> <<3352, 545, 7893, 4675, 1>>, e |-> -50]

\* an advance that wraps at pi: it takes 2*pi off as soon as the sum is pi or more
AdvanceWrapAtPi(a) ==
    LET sum == F64Add(a, Increment)
    IN  IF F64Cmp(sum, PI) >= 0 THEN F64Sub(sum, TwoPi) ELSE sum

\* angle += 0.01; if angle >= 2.0 * PI { angle -= 2.0 * PI }
Advance(a) ==
    LET sum == F64Add(a, Increment)
    IN  IF F64Cmp(sum, TwoPi) >= 0 THEN F64Sub(sum, TwoPi) ELSE sum

\* slice::get(i): the element at index i (from 0), if there is one
Get(s, i) == IF i < Len(s) THEN <<s[i + 1]>> ELSE <<>>

\* filter_map keeps a result that is Some(..) and drops one that is None
IsSome(p) == p # None

\* iter().filter_map(f).collect(): the values f returns, in order, the Nones dropped
FilterMapProject(pts, camera) ==
    SelectSeq([i \in 1..Len(pts) |-> ProjectPoint(pts[i], camera, DisplaySurfaceZ)], IsSome)

\* a loop over the edges that takes both end points from the edge's first index
RECURSIVE EdgeCallsSameEnd(_, _)
EdgeCallsSameEnd(edges, projected) ==
    IF edges = <<>> THEN <<>>
    ELSE LET p0 == Get(projected, Head(edges)[1])
             p1 == Get(projected, Head(edges)[1])
             rest == EdgeCallsSameEnd(Tail(edges), projected)
         IN  IF p0 # <<>> /\ p1 # <<>>
             THEN <<[edge |-> Head(edges), p0 |-> p0[1], p1 |-> p1[1]]>> \o rest
             ELSE rest

\* the draw_line calls of the loop over cube_edges, in order
RECURSIVE EdgeCalls(_, _)
EdgeCalls(edges, projected) ==
    IF edges = <<>> THEN <<>>
    ELSE LET p0 == Get(projected, Head(edges)[1])
             p1 == Get(projected, Head(edges)[2])
             rest == EdgeCalls(Tail(edges), projected)
         IN  IF p0 # <<>> /\ p1 # <<>>
             THEN <<[edge |-> Head(edges), p0 |-> p0[1], p1 |-> p1[1]]>> \o rest
             ELSE rest

\* the pixels after those calls (the pixels after a call are computed before
\* the next call is looked at)
RECURSIVE DrawCalls(_, _)
DrawCalls(px, calls) ==
    IF calls = <<>> THEN px
    ELSE CHOOSE after \in {DrawCalls(drawn_to, Tail(calls)) :
                 drawn_to \in {DrawLine(px, Head(calls).p0, Head(calls).p1)}} : TRUE

\* clearscreen::clear(): the terminal shows nothing; println!("{}", text):
\* the text and a newline are added to what the terminal shows
ClearScreen(terminal) == <<>>
Println(terminal, text) == terminal \o text \o <<"\n">>

InitMain ==
    /\ pixels = NewPixels
    /\ buffer = <<>>
    /\ camera_position = ReferenceCamera
    /\ angle = Zero
    /\ pc = "clear"
    /\ rotated_points = <<>>
    /\ projected_points = <<>>
    /\ drawn = <<>> /\ lit = {} /\ emitted = <<>> /\ prevLit = {}
    /\ cycle = 0
    /\ ScreenIdle /\ LineIdle /\ ProjIdle

\* screen.clear()
MainClear ==
    /\ pc = "clear"
    /\ pixels' = Clear(pixels)
    /\ prevLit' = lit
    /\ drawn' = <<>>
    /\ lit' = {}
    /\ pc' = "rotate"
    /\ UNCHANGED <<buffer, angle, rotated_points, projected_points, emitted,
                   camera_position, cycle, screenVars, lineVars, projVars>>

\* rotation = (angle, 0, angle); rotated_points: rotate_point(vertex, rotation)
\* for every vertex (rotate_point builds the same matrix for each of them,
\* whichever values f64::cos and f64::sin have for the angle)
MainRotate ==
    /\ pc = "rotate"
    /\ LET rotation == [x |-> angle, y |-> Zero, z |-> angle]
       IN  \E rotation_matrix \in RotationMatrix(rotation) :
              rotated_points' =
                 [i \in 1..Len(cube_vertices) |-> MatVec(rotation_matrix, cube_vertices[i])]
    /\ pc' = "project"
    /\ UNCHANGED <<pixels, buffer, angle, projected_points, drawn, lit, emitted, prevLit,
                   camera_position, cycle, screenVars, lineVars, projVars>>

\* projected_points
MainProject ==
    /\ pc = "project"
    /\ projected_points' = FilterMapProject(rotated_points, camera_position)
    /\ pc' = "draw"
    /\ UNCHANGED <<pixels, buffer, angle, rotated_points, drawn, lit, emitted, prevLit,
                   camera_position, cycle, screenVars, lineVars, projVars>>

\* the loop over cube_edges
MainDraw ==
    /\ pc = "draw"
    /\ LET calls == EdgeCalls(cube_edges, projected_points)
       IN  /\ drawn' = calls
           /\ pixels' = DrawCalls(pixels, calls)
           /\ lit' = UNION {LitCells(DrawLine(NewPixels, calls[k].p0, calls[k].p1)) :
                               k \in 1..Len(calls)}
    /\ pc' = "build"
    /\ UNCHANGED <<buffer, angle, rotated_points, projected_points, emitted, prevLit,
                   camera_position, cycle, screenVars, lineVars, projVars>>

\* screen.build()
MainBuild ==
    /\ pc = "build"
    /\ buffer' = Build(pixels)
    /\ pc' = "render"
    /\ UNCHANGED <<pixels, angle, rotated_points, projected_points, drawn, lit, emitted,
                   prevLit, camera_position, cycle, screenVars, lineVars, projVars>>

\* screen.render(): clearscreen::clear().unwrap(), then println!("{}", buffer).
\* When clearscreen::clear() returns an error the unwrap panics and the
\* program ends with the terminal as it was; when println! cannot write all
\* of its text it panics and the program ends with the terminal cleared and
\* some part of the text on it.
MainRender ==
    /\ pc = "render"
    /\ \/ /\ emitted' = Println(ClearScreen(emitted), buffer)
          /\ pc' = "advance"
       \/ /\ emitted' = emitted
          /\ pc' = "panicked"
       \/ /\ \E n \in 0..Len(buffer) :
                emitted' = ClearScreen(emitted) \o SubSeq(buffer, 1, n)
          /\ pc' = "panicked"
    /\ UNCHANGED <<pixels, buffer, angle, rotated_points, projected_points, drawn, lit,
                   prevLit, camera_position, cycle, screenVars, lineVars, projVars>>

\* angle += 0.01, wrapped
MainAdvance ==
    /\ pc = "advance"
    /\ angle' = Advance(angle)
    /\ pc' = "sleep"
    /\ UNCHANGED <<pixels, buffer, rotated_points, projected_points, drawn, lit, emitted,
                   prevLit, camera_position, cycle, screenVars, lineVars, projVars>>

\* sleep(10 ms), then the next iteration: rotated_points and projected_points,
\* declared in the body of the loop, end with the iteration
MainSleep ==
    /\ pc = "sleep"
    /\ cycle < MaxCycles
    /\ cycle' = cycle + 1
    /\ rotated_points' = <<>>
    /\ projected_points' = <<>>
    /\ pc' = "clear"
    /\ UNCHANGED <<pixels, buffer, angle, drawn, lit,
                   emitted, prevLit, camera_position, screenVars, lineVars, projVars>>

NextMain ==
    \/ MainClear \/ MainRotate \/ MainProject \/ MainDraw
    \/ MainBuild \/ MainRender \/ MainAdvance \/ MainSleep

SpecMain == InitMain /\ [][NextMain]_vars

Spec == SpecMain

----------------------------------------------------------------------------
(* Properties of main (SpecMain) *)

\* C1: in every cycle the projection results are index-aligned with the
\* vertices, and the draw_line calls are, edge by edge, those of the edges
\* (i, j) whose two vertices projected, each between the projection of vertex
\* i and the projection of vertex j
C1_EdgesDrawnAsClaimed ==
    pc = "build" =>
        \A proj \in {[i \in 0..(Len(cube_vertices) - 1) |->
                        ProjectPoint(rotated_points[i + 1], camera_position, DisplaySurfaceZ)]} :
            LET Visible(e) == proj[e[1]] # None /\ proj[e[2]] # None
                wanted == SelectSeq(cube_edges, Visible)
            IN  /\ \A i \in 0..(Len(cube_vertices) - 1) :
                      proj[i] # None => Get(projected_points, i) = <<proj[i]>>
                /\ drawn = [k \in 1..Len(wanted) |->
                              [edge |-> wanted[k],
                               p0 |-> proj[wanted[k][1]],
                               p1 |-> proj[wanted[k][2]]]]

\* a cycle of the turned cube in which all twelve edges were drawn, between
\* projections that are not all the same cell
C1_Witness ==
    /\ pc = "build"
    /\ cycle > 0
    /\ Len(projected_points) = Len(cube_vertices)
    /\ Len(drawn) = Len(cube_edges)
    /\ \E k \in 1..Len(drawn) : drawn[k].p0 # drawn[k].p1

\* |s|, 2 * s and 2^k as exact numbers
Magnitude(s) == [s EXCEPT !.neg = FALSE]
Doubled(s) == [s EXCEPT !.e = @ + 1]
PowerOfTwo(k) == [neg |-> FALSE, m |-> <<1>>, e |-> k]
\* the exact number s is an f64: it has no bit below the 53 leading ones
IsF64(s) == BitLen(s.m) <= 53 \/ ~BLowNonZero(s.m, BitLen(s.m) - 53)
\* 2 * |x - t| compared with the distance 2^k between the f64 values around t
TwiceOff(x, t, k) == F64Cmp(Doubled(Magnitude(ExactAdd(x, F64Neg(t)))), PowerOfTwo(k))
\* x is a multiple of 2 * 2^k
EvenAt(x, k) == x.m = <<>> \/ x.e > k \/ (~BLowNonZero(x.m, k - x.e) /\ BBit(x.m, k - x.e) = 0)
NearestAt(x, t, k) == TwiceOff(x, t, k) < 0 \/ (TwiceOff(x, t, k) = 0 /\ EvenAt(x, k))
\* x is the f64 nearest to the exact number t > 0 (of two that are as near,
\* the even one): with 2^(p - 1) <= t < 2^p the f64 values around t are
\* 2^(p - 53) apart
NearestF64(x, t) == IsF64(x) /\ NearestAt(x, t, BitLen(t.m) + t.e - 53)

\* C8: the angle is always in [0, 2*pi). The advance step leaves in angle
\* either the f64 nearest to the old angle plus 0.01, which is then below
\* 2*pi, or a number that is exactly 2*pi less than that f64, which is then
\* 2*pi or more; no other step changes the angle
C8_AngleWrapped ==
    /\ [](F64Cmp(angle, Zero) >= 0 /\ F64Cmp(angle, TwoPi) < 0)
    /\ [][pc = "advance" =>
            \/ /\ NearestF64(angle', ExactAdd(angle, Increment))
               /\ F64Cmp(angle', TwoPi) < 0
            \/ /\ NearestF64(ExactAdd(angle', TwoPi), ExactAdd(angle, Increment))
               /\ F64Cmp(ExactAdd(angle', TwoPi), TwoPi) >= 0]_vars
    /\ [][pc # "advance" => angle' = angle]_vars

\* the end of the cycle whose sum reached 2*pi: the angle is back below 0.01
C8_Witness ==
    /\ pc = "sleep"
    /\ cycle > 0
    /\ F64Cmp(angle, Zero) > 0 /\ F64Cmp(angle, Increment) < 0

\* the pixel vector in which exactly the given cells are lit
PixelsOf(cells) ==
    [i \in 1..(Width * Height) |-> <<(i - 1) % Width, (i - 1) \div Width>> \in cells]

CycleOrder ==
    { <<"clear", "rotate">>, <<"rotate", "project">>, <<"project", "draw">>,
      <<"draw", "build">>, <<"build", "render">>, <<"render", "advance">>,
      <<"advance", "sleep">>, <<"sleep", "clear">> }

====
